---- MODULE Spec2Model ----
(***************************************************************************)
(* nb_import_spikes: extraction and cleaning of spike events from an HDF5  *)
(* file (src/unnamed/part_001).  The file holds two copies of the          *)
(* function: lines 1-425 (spike window, censor filter, refractory          *)
(* deduplication; here variant 1) and lines 427-805 (artifact rejection,   *)
(* trial_range_mode; here variant 2).  One call is modelled as a sequence  *)
(* of steps, pc naming the next one.  The batch driver, main of            *)
(* src/scripts/PROCESS_BATCHFILE.PY, is modelled at the end with variables *)
(* of its own.                                                             *)
(*                                                                         *)
(* Units.  Floating point arguments are integers in a finer unit so that   *)
(* round() is modelled and not the identity: spike_window is in            *)
(* microseconds (the code takes msec), trial_range, refractory_period and  *)
(* the trial log are in milliseconds (the code takes seconds), sampling    *)
(* rates are in Hz.                                                        *)
(*                                                                         *)
(* Arrays.  A Matlab vector is a sequence.  waveforms[e][s][c] is the      *)
(* array after permute: event, sample, channel position.                   *)
(***************************************************************************)
EXTENDS Integers, Sequences, FiniteSets, TLC

VARIABLES
    pc,                 \* the next step of the call
    variant,            \* 1: lines 1-425, 2: lines 427-805
    file,               \* what the HDF5 file holds in the datasets read up front
    pre,                \* the step just executed: its name, the batch it received, what it read
    err,                \* message of the MException that ended the call, or NoError
    waveforms,          \* the five parallel arrays of the batch
    timestamps,
    channels,
    channel_indices,
    source_indices,
    waveform_channels,  \* locals that later steps read
    detect_channels,
    detect_mask,
    extract_indices,
    args,               \* p.Results as far as it outlives the parse
    window,             \* window_lb, window_ub, window_samples, window_size, cross_time, align_sample
    info,               \* spikes.info.detect fields written by the filters
    spikes,             \* the struct returned, once it is assembled
    \* main of src/scripts/PROCESS_BATCHFILE.PY
    dpc,                \* the next statement of main
    batchfile,          \* the jobs pickled in the batch file, in order
    force_overwrite,
    existing,           \* the output files that exist on disk
    position,           \* the number of jobs that pickle.load has returned
    job,                \* fn, file_info, kwargs of the job loaded last
    failed_jobs,
    fh_in,              \* the handle each name is bound to, or Unbound
    fh_out,
    open_handles,       \* the handles opened and not closed
    invoked,            \* the jobs whose operation was called, in order
    raised,             \* the exception that left main, or NoException
    saved               \* what failed_jobs.dat holds, or NotWritten

vars == <<pc, variant, file, pre, err, waveforms, timestamps, channels,
          channel_indices, source_indices, waveform_channels, detect_channels,
          detect_mask, extract_indices, args, window, info, spikes>>

batch_vars == <<waveforms, timestamps, channels, channel_indices, source_indices>>

driver_vars == <<dpc, batchfile, force_overwrite, existing, position, job,
                 failed_jobs, fh_in, fh_out, open_handles, invoked, raised, saved>>

all_vars == <<vars, driver_vars>>

NoError == "none"
LowerBoundError == "Lower bound of window exceeds extracted window"
UpperBoundError == "Upper bound of window exceeds extracted window"
InvalidChannelError == "Channel not available for extraction"
IndexError == "Index exceeds matrix dimensions"
DimensionError == "Matrix dimensions must agree"
UndefinedError == "Undefined function or variable"
ReadError == "HDF5 read failed"

\* Matlab's Inf, as used for window_ub, window_samples and max_features
Inf == 1000000000

----------------------------------------------------------------------------
(* Matlab primitives *)

Abs(x) == IF x < 0 THEN -x ELSE x

Max2(a, b) == IF a >= b THEN a ELSE b

\* round(num/den), den > 0: to the nearest integer, halves away from zero
round(num, den) ==
    LET q == (2 * Abs(num) + den) \div (2 * den)
    IN  IF num < 0 THEN -q ELSE q

\* find(v == x): the positions of x in v
find(v, x) == {k \in 1..Len(v) : v[k] = x}

\* The elements of a set of integers in ascending order
RECURSIVE Ascending(_)
Ascending(S) ==
    IF S = {} THEN <<>>
    ELSE LET m == CHOOSE x \in S : \A y \in S : x <= y
         IN  <<m>> \o Ascending(S \ {m})

\* v(idx) for a sequence idx of positions
Index(v, idx) == [k \in 1..Len(idx) |-> v[idx[k]]]

\* v(mask) for a logical mask: the elements at the true positions, in order
LogicalIndex(v, mask) == Index(v, Ascending({k \in 1..Len(mask) : mask[k]}))

\* v(mask) raises "Index exceeds matrix dimensions" when a true position lies
\* beyond the end of v
MaskInRange(mask, n) == \A k \in 1..Len(mask) : mask[k] => k <= n

\* v(positions) = []: delete the elements at a set of positions
Delete(v, positions) ==
    Index(v, Ascending((1..Len(v)) \ positions))

Range(v) == {v[k] : k \in 1..Len(v)}

FirstMutant(v, n) == SubSeq(v, Len(v) - n + 1, Len(v))

\* v(1:n)
First(v, n) == SubSeq(v, 1, n)

----------------------------------------------------------------------------
(* The HDF5 file *)

\* A waveform of S samples on C channels that is v at (s0, c0) and 0 elsewhere
Impulse(S, C, s0, c0, v) ==
    [s \in 1..S |-> [c \in 1..C |-> IF s = s0 /\ c = c0 THEN v ELSE 0]]

Flat(S, C) == [s \in 1..S |-> [c \in 1..C |-> 0]]

\* /event_data with its attributes and the per-event arrays.  events is a
\* sequence of [timestamp, channel, waveform]; channel_indices is the 0-based
\* position of the detection channel among the extracted channels.
MakeFile(ec, tfs, wfs, sb, ws, events) ==
    [extracted_channels |-> ec,
     timestamps_fs      |-> tfs,
     waveform_fs        |-> wfs,
     samples_before     |-> sb,
     window_samples     |-> ws,
     window_size        |-> (ws * 1000000) \div wfs,
     cross_time         |-> (sb * 1000000) \div wfs,
     timestamps         |-> [k \in 1..Len(events) |-> events[k].timestamp],
     channels           |-> [k \in 1..Len(events) |-> events[k].channel],
     channel_indices    |-> [k \in 1..Len(events) |->
                               (CHOOSE j \in 1..Len(ec) : ec[j] = events[k].channel) - 1],
     waveforms          |-> [k \in 1..Len(events) |-> events[k].waveform]]

\* All sequences over S of length 0..n
SeqUpTo(S, n) == UNION {[1..k -> S] : k \in 0..n}

----------------------------------------------------------------------------
(* get_indices, lines 412-425 and 792-805 *)

NotScalarMutant(index) == Cardinality(index) = 0

\* ~isscalar(index): find() returned no position or more than one
NotScalar(index) == Cardinality(index) # 1

get_indicesMutant(chs, available_channels) ==
    [err |-> IF \E i \in 1..Len(chs) : NotScalar(find(available_channels, chs[i]))
             THEN InvalidChannelError ELSE NoError,
     indices |-> Ascending(UNION {find(available_channels, chs[i]) : i \in 1..Len(chs)})]

get_indices(chs, available_channels) ==
    IF \E i \in 1..Len(chs) : NotScalar(find(available_channels, chs[i]))
    THEN [err |-> InvalidChannelError, indices |-> <<>>]
    ELSE [err |-> NoError,
          indices |-> [i \in 1..Len(chs) |->
                          CHOOSE j \in find(available_channels, chs[i]) : TRUE]]

----------------------------------------------------------------------------
(* The state of a call *)

Undefined == [class |-> "undefined", value |-> <<>>]

NoWindow == [window_lb |-> 0, window_ub |-> 0, window_samples |-> 0,
             window_size |-> 0, cross_time |-> 0, align_sample |-> 0]

NoInfo == [refractory_violations |-> <<>>, refractory_period_ts |-> 0]

NoStep == [step |-> "none", waveforms |-> <<>>, timestamps |-> <<>>,
           channels |-> <<>>, channel_indices |-> <<>>, source_indices |-> <<>>,
           in |-> <<>>]

\* What a step leaves in pre: its name, the batch it received, what it read
Step(name, in) ==
    [step |-> name, waveforms |-> waveforms, timestamps |-> timestamps,
     channels |-> channels, channel_indices |-> channel_indices,
     source_indices |-> source_indices, in |-> in]

DefaultArgs ==
    [waveform_gain |-> 1, trial_range_mode |-> "block", channels |-> <<>>,
     waveform_channels |-> <<>>, detect_channels |-> <<>>]

\* The output struct before line 401
NoSpikes == <<>>

\* The call throws: nothing after the throwing statement is executed
Throw(message) == /\ err' = message
                  /\ pc' = "failed"

\* The batch driver's names before main assigns them
Unbound == <<>>
NoJob == [fn |-> "", file_info |-> [input_file |-> "", output_file |-> ""],
          kwargs |-> {}]
NoException == "none"
NotWritten == <<"failed_jobs.dat is not written">>

\* No batch driver is running
DriverIdle ==
    /\ dpc = "idle"
    /\ batchfile = <<>>
    /\ force_overwrite = FALSE
    /\ existing = {}
    /\ position = 0
    /\ job = NoJob
    /\ failed_jobs = <<>>
    /\ fh_in = Unbound
    /\ fh_out = Unbound
    /\ open_handles = {}
    /\ invoked = <<>>
    /\ raised = NoException
    /\ saved = NotWritten

----------------------------------------------------------------------------
(* Parse the arguments and open the file: lines 116-196 (variant 1) and    *)
(* lines 543-624 (variant 2)                                               *)

ParseError == "Argument failed validation"

\* The statement groups of the function body in the order of the text:
\* variant 1, lines 116-410, and variant 2, lines 560-790
Stages(v) ==
    IF v = 1
    THEN <<"open", "window", "read", "detect", "censor", "trial", "max",
           "refractory", "output", "done">>
    ELSE <<"open", "window", "read", "detect", "artifact", "trial", "max",
           "output", "done">>

AfterMutant(stage, v) ==
    LET s == IF v = 1
             THEN <<"open", "window", "read", "detect", "censor", "trial",
                    "refractory", "max", "output", "done">>
             ELSE Stages(v)
    IN  s[1 + CHOOSE k \in 1..Len(s) : s[k] = stage]

\* Control falls from one statement group into the next
After(stage, v) ==
    LET s == Stages(v)
    IN  s[1 + CHOOSE k \in 1..Len(s) : s[k] = stage]

\* The validator of trial_range_mode, lines 557-558
ValidTrialRangeMode(x) == x \in {"block", "trial"}

DefaultChannelsMutant(requested, chs) == requested

\* Lines 146-151 and 187-189: an empty waveform_channels or detect_channels
\* defaults to channels; waveform_channels then defaults to every channel
DefaultChannels(requested, chs) == IF requested = <<>> THEN chs ELSE requested

\* Line 169: h5read of /event_data/timestamps_n, one sample index per event
ReadTimestamps(f) == f.timestamps

Open(requests, gains, modes) ==
    /\ pc = "open"
    /\ \E chs \in requests, wc \in requests, dc \in requests, g \in gains, m \in modes :
         LET a   == [waveform_gain |-> g,
                     trial_range_mode |-> IF variant = 2 THEN m ELSE "block",
                     channels |-> chs, waveform_channels |-> wc,
                     detect_channels |-> dc]
             wc1 == DefaultChannels(wc, chs)
             wc2 == DefaultChannels(wc1, file.extracted_channels)
             r   == get_indices(wc2, file.extracted_channels)
         IN  /\ pre' = Step("open", [channels |-> chs, waveform_channels |-> wc,
                                     detect_channels |-> dc])
             /\ args' = a
             /\ IF variant = 2 /\ ~ValidTrialRangeMode(m)
                THEN /\ Throw(ParseError)
                     /\ UNCHANGED <<timestamps, source_indices, waveform_channels,
                                    detect_channels, extract_indices>>
                ELSE /\ waveform_channels' = wc2
                     /\ detect_channels' = DefaultChannels(dc, chs)
                     /\ timestamps' = ReadTimestamps(file)
                     /\ source_indices' = [k \in 1..Len(timestamps') |-> k]
                     /\ IF r.err # NoError
                        THEN /\ Throw(r.err)
                             /\ UNCHANGED extract_indices
                        ELSE /\ extract_indices' = r.indices
                             /\ pc' = After("open", variant)
                             /\ UNCHANGED err
    /\ UNCHANGED <<variant, file, waveforms, channels, channel_indices,
                   detect_mask, window, info>>
    /\ UNCHANGED spikes
    /\ UNCHANGED driver_vars

\* The state after Open when nothing was thrown
Opened(v, f, wc, dc, a) ==
    /\ variant = v
    /\ file = f
    /\ args = a
    /\ err = NoError
    /\ timestamps = f.timestamps
    /\ source_indices = [k \in 1..Len(f.timestamps) |-> k]
    /\ waveform_channels = wc
    /\ detect_channels = dc
    /\ extract_indices = get_indices(wc, f.extracted_channels).indices
    /\ waveforms = <<>>
    /\ channels = <<>>
    /\ channel_indices = <<>>
    /\ detect_mask = Undefined
    /\ window = NoWindow
    /\ info = NoInfo
    /\ spikes = NoSpikes
    /\ pre = NoStep
    /\ DriverIdle

----------------------------------------------------------------------------
(* The spike window, lines 205-257 (variant 1 only; variant 2 reads the    *)
(* stored window whole, lines 634-637)                                     *)

AlignSampleMutant(samples_before, window_lb) == samples_before - window_lb

\* Line 220, with window_lb still 0-based
AlignSample(samples_before, window_lb) == samples_before - window_lb + 1

\* Line 227
LowerBoundInvalid(window_lb) == window_lb < 1

UpperBoundInvalidMutant(window_ub, window_samples) == window_ub >= window_samples

\* Line 231
UpperBoundInvalid(window_ub, window_samples) == window_ub > window_samples

\* Line 214: round(spike_window * 1e-3 * waveform_fs), spike_window in usec
SpikeWindowSamples(spike_window, waveform_fs) ==
    [k \in 1..2 |-> round(spike_window[k] * waveform_fs, 1000000)]

SpikeWindow(spike_window, f) ==
    IF spike_window # <<>>
    THEN LET sws == SpikeWindowSamples(spike_window, f.waveform_fs)
             lb0 == sws[1] + f.samples_before
             ub  == sws[2] + f.samples_before
             align_sample == AlignSample(f.samples_before, lb0)
             lb  == lb0 + 1
             ws  == ub - lb + 1
         IN  IF LowerBoundInvalid(lb)
             THEN [err |-> LowerBoundError, window |-> NoWindow]
             ELSE IF UpperBoundInvalid(ub, f.window_samples)
             THEN [err |-> UpperBoundError, window |-> NoWindow]
             ELSE [err |-> NoError,
                   window |-> [window_lb |-> lb, window_ub |-> ub,
                               window_samples |-> ws,
                               window_size |-> (ws * 1000000) \div f.waveform_fs,
                               cross_time |-> ((f.samples_before - lb + 1) * 1000000)
                                                 \div f.waveform_fs,
                               align_sample |-> align_sample]]
    ELSE [err |-> NoError,
          window |-> [window_lb |-> 1, window_ub |-> Inf, window_samples |-> Inf,
                      window_size |-> f.window_size, cross_time |-> f.cross_time,
                      align_sample |-> f.samples_before + 1]]

WindowStep(spike_windows) ==
    /\ pc = "window"
    /\ \E sw \in spike_windows :
         LET r == SpikeWindow(IF variant = 1 THEN sw ELSE <<>>, file)
         IN  /\ pre' = Step("window", [spike_window |-> IF variant = 1 THEN sw ELSE <<>>])
             /\ IF r.err # NoError
                THEN /\ Throw(r.err)
                     /\ UNCHANGED window
                ELSE /\ window' = r.window
                     /\ pc' = After("window", variant)
                     /\ UNCHANGED err
    /\ UNCHANGED <<variant, file, args, batch_vars, waveform_channels,
                   detect_channels, detect_mask, extract_indices, info>>
    /\ UNCHANGED spikes
    /\ UNCHANGED driver_vars

----------------------------------------------------------------------------
(* Read the waveforms, lines 262-276 (variant 1) and 631-645 (variant 2)   *)

\* The number of samples read per channel: window_samples, or with Inf the
\* samples from window_lb to the end of the stored window
SamplesRead(f, win) ==
    IF win.window_samples = Inf THEN f.window_samples - win.window_lb + 1
    ELSE win.window_samples

\* h5read per requested channel over the window, permute to [event, sample,
\* channel], times waveform_gain
ReadWaveforms(f, win, indices, gain) ==
    [e \in 1..Len(f.waveforms) |->
        [s \in 1..SamplesRead(f, win) |->
            [c \in 1..Len(indices) |->
                f.waveforms[e][win.window_lb + s - 1][indices[c]] * gain]]]

ReadStep ==
    /\ pc = "read"
    /\ pre' = Step("read", <<>>)
    /\ IF SamplesRead(file, window) < 1
       THEN \* h5read takes a positive count
            /\ Throw(ReadError)
            /\ UNCHANGED <<waveforms, channels, channel_indices>>
       ELSE /\ waveforms' = ReadWaveforms(file, window, extract_indices,
                                          args.waveform_gain)
            /\ channels' = file.channels
            /\ channel_indices' = file.channel_indices
            /\ pc' = After("read", variant)
            /\ UNCHANGED err
    /\ UNCHANGED <<variant, file, args, timestamps, source_indices,
                   waveform_channels, detect_channels, detect_mask,
                   extract_indices, window, info>>
    /\ UNCHANGED spikes
    /\ UNCHANGED driver_vars

----------------------------------------------------------------------------
(* Winnowing the five parallel arrays by a logical mask, lines 287-291,    *)
(* 302-306, 342-346, 656-660, 688-692, 734-738                             *)

WinnowMutant(mask) ==
    /\ waveforms' = LogicalIndex(waveforms, mask)
    /\ timestamps' = LogicalIndex(timestamps, mask)
    /\ channels' = LogicalIndex(channels, mask)
    /\ channel_indices' = channel_indices
    /\ source_indices' = LogicalIndex(source_indices, mask)

WinnowRenumberMutant(mask) ==
    /\ waveforms' = LogicalIndex(waveforms, mask)
    /\ timestamps' = LogicalIndex(timestamps, mask)
    /\ channels' = LogicalIndex(channels, mask)
    /\ channel_indices' = LogicalIndex(channel_indices, mask)
    /\ source_indices' = First(source_indices, Len(LogicalIndex(timestamps, mask)))

Winnow(mask) ==
    /\ waveforms' = LogicalIndex(waveforms, mask)
    /\ timestamps' = LogicalIndex(timestamps, mask)
    /\ channels' = LogicalIndex(channels, mask)
    /\ channel_indices' = LogicalIndex(channel_indices, mask)
    /\ source_indices' = LogicalIndex(source_indices, mask)

Not(mask) == [k \in 1..Len(mask) |-> ~mask[k]]

----------------------------------------------------------------------------
(* The detection-channel filter, lines 280-295 and 649-663                 *)

\* length(waveforms): the largest dimension of the [event, sample, channel]
\* array, 0 for an empty array
length(w) ==
    IF Len(w) = 0 THEN 0
    ELSE Max2(Len(w), Max2(Len(w[1]), Len(w[1][1])))

\* zeros(1, length(waveforms)) | (channels == ch), over ch in detect_channels:
\* element-wise when the lengths agree, a scalar expands, otherwise the
\* dimensions disagree
DetectMask(w, chans, dc) ==
    IF length(w) = Len(chans)
    THEN [err |-> NoError,
          mask |-> [k \in 1..Len(chans) |-> chans[k] \in Range(dc)]]
    ELSE IF Len(chans) = 1
    THEN [err |-> NoError,
          mask |-> [k \in 1..length(w) |-> chans[1] \in Range(dc)]]
    ELSE [err |-> DimensionError, mask |-> <<>>]

DetectStep ==
    /\ pc = "detect"
    /\ pre' = Step("detect", [detect_channels |-> detect_channels])
    /\ IF detect_channels # <<>>
       THEN LET r == DetectMask(waveforms, channels, detect_channels)
            IN  IF r.err # NoError
                THEN /\ Throw(r.err)
                     /\ UNCHANGED <<batch_vars, detect_mask, detect_channels>>
                ELSE /\ detect_mask' = [class |-> "logical", value |-> r.mask]
                     /\ UNCHANGED detect_channels
                     /\ IF ~MaskInRange(r.mask, Len(timestamps))
                        THEN /\ Throw(IndexError)
                             /\ UNCHANGED batch_vars
                        ELSE /\ Winnow(r.mask)
                             /\ pc' = After("detect", variant)
                             /\ UNCHANGED err
       ELSE /\ detect_channels' = file.extracted_channels
            \* ones(size(timestamps)) is of class double; variant 2 sets no mask
            /\ detect_mask' = IF variant = 1
                              THEN [class |-> "double",
                                    value |-> [k \in 1..Len(timestamps) |-> 1]]
                              ELSE detect_mask
            /\ pc' = After("detect", variant)
            /\ UNCHANGED <<batch_vars, err>>
    /\ UNCHANGED <<variant, file, args, waveform_channels, extract_indices,
                   window, info>>
    /\ UNCHANGED spikes
    /\ UNCHANGED driver_vars

----------------------------------------------------------------------------
(* The censor filter, lines 299-307 (variant 1)                            *)

\* censored(detect_mask): the flags at the true positions of a logical mask;
\* with the double mask of ones, element 1 once per event
CensoredOfBatch(censored, dm) ==
    IF dm.class = "logical" THEN LogicalIndex(censored, dm.value)
    ELSE Index(censored, dm.value)

CensorStep(flags) ==
    /\ pc = "censor"
    /\ \E exclude_censored \in BOOLEAN :
       \E censored \in [1..Len(file.timestamps) -> flags] :
         IF exclude_censored
         THEN /\ pre' = Step("censor", [exclude_censored |-> TRUE,
                                        censored |-> censored])
              /\ IF detect_mask.class = "logical"
                    /\ ~MaskInRange(detect_mask.value, Len(censored))
                 THEN /\ Throw(IndexError)
                      /\ UNCHANGED batch_vars
                 ELSE /\ Winnow(Not(CensoredOfBatch(censored, detect_mask)))
                      /\ pc' = After("censor", variant)
                      /\ UNCHANGED err
         ELSE /\ pre' = Step("censor", [exclude_censored |-> FALSE,
                                        censored |-> <<>>])
              /\ pc' = After("censor", variant)
              /\ UNCHANGED <<batch_vars, err>>
    /\ UNCHANGED <<variant, file, args, waveform_channels, detect_channels,
                   detect_mask, extract_indices, window, info>>
    /\ UNCHANGED spikes
    /\ UNCHANGED driver_vars

----------------------------------------------------------------------------
(* Artifact rejection, lines 665-693 (variant 2)                           *)

\* Lines 666-672: the names 'detect', 'waveform' and 'all' stand for channel
\* lists, a vector stands for itself
ResolveArtifactReject(artifact_reject, dc, wc, ec) ==
    CASE artifact_reject.kind = "detect"   -> dc
      [] artifact_reject.kind = "waveform" -> wc
      [] artifact_reject.kind = "all"      -> ec
      [] OTHER                             -> artifact_reject.value

\* ~any(artifacts, 2)' over the columns in indices
NonArtifactMask(rows, indices) ==
    [k \in 1..Len(rows) |-> ~(\E j \in Range(indices) : rows[k][j])]

ArtifactStep(rejects, rowset) ==
    /\ pc = "artifact"
    /\ \E artifact_reject \in rejects :
         IF artifact_reject.kind # "empty"
         THEN \E artifacts \in [1..Len(file.timestamps) -> rowset] :
                LET chs == ResolveArtifactReject(artifact_reject, detect_channels,
                                                 waveform_channels,
                                                 file.extracted_channels)
                    r   == get_indices(chs, file.extracted_channels)
                IN  /\ pre' = Step("artifact", [artifact_reject |-> artifact_reject,
                                                artifacts |-> artifacts])
                    /\ IF r.err # NoError
                       THEN /\ Throw(r.err)
                            /\ UNCHANGED batch_vars
                       ELSE IF detect_mask.class = "undefined"
                       THEN /\ Throw(UndefinedError)
                            /\ UNCHANGED batch_vars
                       ELSE IF ~MaskInRange(detect_mask.value, Len(artifacts))
                       THEN /\ Throw(IndexError)
                            /\ UNCHANGED batch_vars
                       ELSE /\ Winnow(NonArtifactMask(
                                   LogicalIndex(artifacts, detect_mask.value),
                                   r.indices))
                            /\ pc' = After("artifact", variant)
                            /\ UNCHANGED err
         ELSE /\ pre' = Step("artifact", [artifact_reject |-> artifact_reject,
                                          artifacts |-> <<>>])
              /\ pc' = After("artifact", variant)
              /\ UNCHANGED <<batch_vars, err>>
    /\ UNCHANGED <<variant, file, args, waveform_channels, detect_channels,
                   detect_mask, extract_indices, window, info>>
    /\ UNCHANGED spikes
    /\ UNCHANGED driver_vars

----------------------------------------------------------------------------
(* The trial-range filter, lines 309-347 (variant 1) and 695-742 (variant 2) *)

\* Line 318: round([trial_log.start, trial_log.xEnd] * timestamps_fs)', one
\* column [start, end] per trial; the log is in msec here
Epochs(trial_log, fs) ==
    [i \in 1..Len(trial_log) |->
        [start |-> round(trial_log[i].start * fs, 1000),
         end   |-> round(trial_log[i].end * fs, 1000)]]

\* Lines 327-329
ExpandedEpochs(epochs, lb, ub) ==
    [i \in 1..Len(epochs) |->
        [start |-> epochs[i].start + lb, end |-> epochs[i].end + ub]]

\* length() of the 2 x n array of epochs: the larger dimension, 0 when empty
EpochsLength(epochs) == IF Len(epochs) = 0 THEN 0 ELSE Max2(2, Len(epochs))

InEpochMutant(t, epoch) == t >= epoch.start /\ t <= epoch.end

\* Lines 336-337: lower bound inclusive, upper bound exclusive
InEpoch(t, epoch) == t >= epoch.start /\ t < epoch.end

\* Lines 334-339: the loop reads column i for i = 1..length(expanded_epochs)
TrialMaskIndividual(ts, expanded_epochs) ==
    IF EpochsLength(expanded_epochs) > Len(expanded_epochs)
    THEN [err |-> IndexError, mask |-> <<>>]
    ELSE [err |-> NoError,
          mask |-> [k \in 1..Len(ts) |->
                      \E i \in 1..EpochsLength(expanded_epochs) :
                          InEpoch(ts[k], expanded_epochs[i])]]

BlockEndMutant(epochs, ub) == epochs[1].end + ub

\* Line 729: epochs(2,end)+ub
BlockEnd(epochs, ub) == epochs[Len(epochs)].end + ub

\* Lines 728-730
TrialMaskBlock(ts, epochs, lb, ub) ==
    IF Len(epochs) = 0
    THEN [err |-> IndexError, mask |-> <<>>]
    ELSE [err |-> NoError,
          mask |-> [k \in 1..Len(ts) |->
                      InEpoch(ts[k], [start |-> epochs[1].start + lb,
                                      end |-> BlockEnd(epochs, ub)])]]

\* Line 710: variant 1 has the per-trial loop only; variant 2 takes the loop
\* for 'individual' and the block for every other mode
TrialMask(v, mode, ts, epochs, lb, ub) ==
    IF v = 1 \/ mode = "individual"
    THEN TrialMaskIndividual(ts, ExpandedEpochs(epochs, lb, ub))
    ELSE TrialMaskBlock(ts, epochs, lb, ub)

\* The copies of epochs and expanded_epochs in spikes.info.detect (lines 319,
\* 330, 704, 717) are not carried: no later step reads them.
\* stored tells whether the file holds /block_data/trial_log: variant 1 reads
\* it inside the if of line 309, variant 2 before it, at line 698
TrialStep(ranges, logs, stored) ==
    /\ pc = "trial"
    /\ \E trial_range \in ranges, exists \in stored :
       \E trial_log \in IF exists THEN logs ELSE {<<>>} :
         LET epochs == Epochs(trial_log, file.timestamps_fs)
             read   == variant = 2 \/ trial_range # <<>>
         IN  /\ pre' = Step("trial", [trial_range |-> trial_range,
                                      trial_log |-> IF read THEN trial_log ELSE <<>>,
                                      stored |-> exists])
             /\ IF read /\ ~exists
                THEN \* h5read of a dataset that is not in the file
                     /\ Throw(ReadError)
                     /\ UNCHANGED batch_vars
                ELSE IF trial_range # <<>>
                THEN LET lb == round(trial_range[1] * file.timestamps_fs, 1000)
                         ub == round(trial_range[2] * file.timestamps_fs, 1000)
                         r  == TrialMask(variant, args.trial_range_mode,
                                         timestamps, epochs, lb, ub)
                     IN  IF r.err # NoError
                         THEN /\ Throw(r.err)
                              /\ UNCHANGED batch_vars
                         ELSE /\ Winnow(r.mask)
                              /\ pc' = After("trial", variant)
                              /\ UNCHANGED err
                ELSE /\ pc' = After("trial", variant)
                     /\ UNCHANGED <<batch_vars, err>>
    /\ UNCHANGED <<variant, file, args, waveform_channels, detect_channels,
                   detect_mask, extract_indices, window, info>>
    /\ UNCHANGED spikes
    /\ UNCHANGED driver_vars

----------------------------------------------------------------------------
(* max_features, lines 361-367 and 755-761                                 *)

MaxStep(limits) ==
    /\ pc = "max"
    /\ \E max_features \in limits :
         /\ pre' = Step("max", [max_features |-> max_features])
         /\ IF max_features # Inf /\ max_features < Len(timestamps)
            THEN /\ waveforms' = First(waveforms, max_features)
                 /\ timestamps' = First(timestamps, max_features)
                 /\ channels' = First(channels, max_features)
                 /\ channel_indices' = First(channel_indices, max_features)
                 /\ source_indices' = First(source_indices, max_features)
            ELSE UNCHANGED batch_vars
    /\ pc' = After("max", variant)
    /\ UNCHANGED <<variant, file, args, err, waveform_channels, detect_channels,
                   detect_mask, extract_indices, window, info>>
    /\ UNCHANGED spikes
    /\ UNCHANGED driver_vars

----------------------------------------------------------------------------
(* Refractory deduplication, lines 369-399 (variant 1)                     *)

SortIndexMutant(ts) ==
    LET rank(k) == Cardinality({j \in 1..Len(ts) :
                        ts[j] < ts[k] \/ (ts[j] = ts[k] /\ j >= k)})
    IN  [r \in 1..Len(ts) |-> CHOOSE k \in 1..Len(ts) : rank(k) = r]

\* [~, i] = sort(timestamps, 'ascend'): the positions in ascending order of
\* timestamp; sort is stable, equal timestamps keep their order
SortIndex(ts) ==
    LET rank(k) == Cardinality({j \in 1..Len(ts) :
                        ts[j] < ts[k] \/ (ts[j] = ts[k] /\ j <= k)})
    IN  [r \in 1..Len(ts) |-> CHOOSE k \in 1..Len(ts) : rank(k) = r]

TooCloseMutant(difference, refractory_period) == difference < refractory_period

\* Line 376: diff(sorted_timestamps) <= refractory_period
TooClose(difference, refractory_period) == difference <= refractory_period

\* Lines 376-377: find(diff(sorted) <= refractory_period) + 1, the positions
\* in the sorted order of the later event of each close pair
Violations(sorted_timestamps, refractory_period) ==
    Ascending({k + 1 : k \in {j \in 1..(Len(sorted_timestamps) - 1) :
        TooClose(sorted_timestamps[j + 1] - sorted_timestamps[j], refractory_period)}})

\* Line 378: i(violations), the same events by their position in the batch
IViolations(ts, refractory_period) ==
    Index(SortIndex(ts), Violations(Index(ts, SortIndex(ts)), refractory_period))

\* Line 394: max(waveforms, [], 2) for one event and one channel position
Deflection(w, c) ==
    CHOOSE m \in {w[s][c] : s \in 1..Len(w)} : \A s \in 1..Len(w) : w[s][c] <= m

\* Line 396: [~, i] = max(a, [], 3), the first position of the largest value
MaxDeflection(w) ==
    CHOOSE c \in 1..Len(w[1]) :
        /\ \A d \in 1..Len(w[1]) : Deflection(w, d) <= Deflection(w, c)
        /\ \A d \in 1..(c - 1) : Deflection(w, d) < Deflection(w, c)

ReassignSourceMutant(wc, ec) == ec

\* Line 398 indexes waveform_channels, the channels that were read
ReassignSource(wc, ec) == wc

RefractoryEnabledMutant(refractory_period) == TRUE

\* Line 370
RefractoryEnabled(refractory_period) == refractory_period # 0

ViolationSourcesMutant(sources, i_violations) == i_violations

\* Line 381: source_indices(i_violations)
ViolationSources(sources, i_violations) == Index(sources, i_violations)

RefractoryStep(periods) ==
    /\ pc = "refractory"
    /\ \E period \in periods :
       \E refractory_period \in {round(period * file.timestamps_fs, 1000)} :
       \E i_violations \in {IViolations(timestamps, refractory_period)} :
         /\ pre' = Step("refractory", [refractory_period |-> period])
         /\ IF RefractoryEnabled(refractory_period)
            THEN /\ info' = [info EXCEPT
                        !.refractory_violations =
                            ViolationSources(source_indices, i_violations),
                        !.refractory_period_ts = refractory_period]
                 /\ waveforms' = Delete(waveforms, Range(i_violations))
                 /\ timestamps' = Delete(timestamps, Range(i_violations))
                 /\ channel_indices' = Delete(channel_indices, Range(i_violations))
                 /\ source_indices' = Delete(source_indices, Range(i_violations))
                 /\ channels' = [k \in 1..Len(waveforms') |->
                        ReassignSource(waveform_channels, file.extracted_channels)
                            [MaxDeflection(waveforms'[k])]]
            ELSE UNCHANGED <<batch_vars, info>>
    /\ pc' = After("refractory", variant)
    /\ UNCHANGED <<variant, file, args, err, waveform_channels, detect_channels,
                   detect_mask, extract_indices, window>>
    /\ UNCHANGED spikes
    /\ UNCHANGED driver_vars

----------------------------------------------------------------------------
(* The output record, lines 401-409 and 781-789: the batch as it stands    *)

SecondsMutant(t, fs) == t

\* Line 407: timestamps ./ timestamps_fs, in microseconds here
Seconds(t, fs) == (t * 1000000) \div fs

OutputStep ==
    /\ pc = "output"
    /\ pc' = After("output", variant)
    /\ pre' = Step("output", <<>>)
    /\ spikes' =
          [waveforms       |-> waveforms,
           timestamps      |-> timestamps,
           channels        |-> channels,
           channel_indices |-> channel_indices,
           source_indices  |-> source_indices,
           spiketimes      |-> [k \in 1..Len(timestamps) |->
                                   Seconds(timestamps[k], file.timestamps_fs)],
           unwrapped_times |-> [k \in 1..Len(timestamps) |->
                                   Seconds(timestamps[k], file.timestamps_fs)],
           trials          |-> [k \in 1..Len(timestamps) |-> 1],
           \* spikes.info.detect, lines 352-355; nothing assigns the two
           \* channel lists or the arguments after the detect filter
           settings          |-> args,
           detect_channels   |-> detect_channels,
           waveform_channels |-> waveform_channels,
           window_samples    |-> SamplesRead(file, window)]
    /\ UNCHANGED <<variant, file, args, err, batch_vars, waveform_channels,
                   detect_channels, detect_mask, extract_indices, window, info>>
    /\ UNCHANGED driver_vars

----------------------------------------------------------------------------
(* One call from the parse to the output record.  The file stores two      *)
(* channels, 3 and 5, and a window of two samples, one before the crossing; *)
(* 1000 Hz makes one sample a millisecond.                                 *)

MaxEvents == 2

ExtractedChannels == <<3, 5>>

\* The waveform of an event detected on the channel at position c: its only
\* deflection is on that channel, at sample c
PipelineWaveforms(c) == Impulse(2, 2, c, c, 1)

PipelineEvents ==
    {[timestamp |-> t, channel |-> ExtractedChannels[c],
      waveform |-> PipelineWaveforms(c)] :
        t \in {0, 1}, c \in DOMAIN ExtractedChannels}

\* Three events, the last two at one time on channel 5
PipelineScenario ==
    MakeFile(ExtractedChannels, 1000, 1000, 1, 2,
             <<[timestamp |-> 0, channel |-> 3, waveform |-> Impulse(2, 2, 1, 1, 1)],
               [timestamp |-> 1, channel |-> 5, waveform |-> Impulse(2, 2, 2, 2, 1)],
               [timestamp |-> 1, channel |-> 5, waveform |-> Impulse(2, 2, 1, 1, 1)]>>)

PipelineFiles ==
    {MakeFile(ExtractedChannels, 1000, 1000, 1, 2, events) :
        events \in SeqUpTo(PipelineEvents, MaxEvents)}
    \cup {PipelineScenario}

\* Channel 7 is not in the file
PipelineRequests == {<<>>, <<5>>, <<7>>}
PipelineGains == {2}
PipelineModes == {"block", "individual"}
PipelineWindows == {<<>>, <<0, 1000>>, <<-1000, 2000>>}
PipelineRejects ==
    {[kind |-> "empty", value |-> <<>>], [kind |-> "detect", value |-> <<>>],
     [kind |-> "waveform", value |-> <<>>], [kind |-> "all", value |-> <<>>],
     [kind |-> "vector", value |-> <<3>>]}
PipelineArtifactRows == {<<FALSE, FALSE>>, <<TRUE, FALSE>>, <<FALSE, TRUE>>}
PipelineRanges == {<<>>, <<0, 0>>}
PipelineLogs == {<<>>, <<[start |-> 0, end |-> 1]>>,
                 <<[start |-> 0, end |-> 1], [start |-> 1, end |-> 1]>>}
PipelineLimits == {Inf, 1, 2}
PipelinePeriods == {0, 1}

Init ==
    /\ pc = "open"
    /\ variant \in {1, 2}
    /\ file \in PipelineFiles
    /\ pre = NoStep
    /\ err = NoError
    /\ waveforms = <<>>
    /\ timestamps = <<>>
    /\ channels = <<>>
    /\ channel_indices = <<>>
    /\ source_indices = <<>>
    /\ waveform_channels = <<>>
    /\ detect_channels = <<>>
    /\ detect_mask = Undefined
    /\ extract_indices = <<>>
    /\ args = DefaultArgs
    /\ window = NoWindow
    /\ info = NoInfo
    /\ spikes = NoSpikes
    /\ DriverIdle

Next ==
    \/ Open(PipelineRequests, PipelineGains, PipelineModes)
    \/ WindowStep(PipelineWindows)
    \/ ReadStep
    \/ DetectStep
    \/ CensorStep(BOOLEAN)
    \/ ArtifactStep(PipelineRejects, PipelineArtifactRows)
    \/ TrialStep(PipelineRanges, PipelineLogs, BOOLEAN)
    \/ MaxStep(PipelineLimits)
    \/ RefractoryStep(PipelinePeriods)
    \/ OutputStep

Spec == Init /\ [][Next]_all_vars

\* The call stands between two steps with its batch read and no error
AtStageBoundary ==
    pc \in {"detect", "censor", "artifact", "trial", "max", "refractory",
            "output", "done"}

\* C1: after the read, after every filter (detection channel, censor,
\* artifact rejection, trial range, max_features) and after the refractory
\* deduplication, timestamps, channels, channel_indices, source_indices and
\* the event axis of waveforms have the same length
C1_ParallelArrays ==
    AtStageBoundary
    => /\ Len(timestamps) = Len(channels)
       /\ Len(channels) = Len(channel_indices)
       /\ Len(channel_indices) = Len(source_indices)
       /\ Len(source_indices) = Len(waveforms)

\* The deduplication removed one of two events
C1_Witness ==
    /\ pc = "output"
    /\ pre.step = "refractory"
    /\ Len(timestamps) = 1
    /\ Len(pre.timestamps) = 2

\* C2: source_indices starts as 1..N over the file, and at every boundary
\* position i of the batch holds the timestamp, the channel index and the
\* (windowed, scaled) waveform of the event at position source_indices[i] of
\* the file
C2_SourceIndices ==
    /\ pc \in {"window", "read", "detect"}
         => source_indices = [k \in 1..Len(file.timestamps) |-> k]
    /\ AtStageBoundary
         => \A i \in 1..Len(source_indices) :
              /\ source_indices[i] \in 1..Len(file.timestamps)
              /\ i \in DOMAIN timestamps
              /\ timestamps[i] = file.timestamps[source_indices[i]]
              /\ i \in DOMAIN channel_indices
              /\ channel_indices[i] = file.channel_indices[source_indices[i]]
              /\ i \in DOMAIN waveforms
              /\ \A s \in DOMAIN waveforms[i] : \A c \in DOMAIN waveforms[i][s] :
                   waveforms[i][s][c] =
                       args.waveform_gain *
                       file.waveforms[source_indices[i]][window.window_lb + s - 1]
                                     [extract_indices[c]]

\* The output holds an event that is not at its position of the file, with a
\* waveform that tells it from its neighbour in the file
C2_Witness ==
    /\ pc = "done"
    /\ Len(source_indices) >= 1
    /\ source_indices[1] = 2
    /\ file.waveforms[1] # file.waveforms[2]
    /\ file.timestamps[1] # file.timestamps[2]

----------------------------------------------------------------------------
(* The spike window on its own: every stored window up to MaxWindowSamples *)
(* and every requested window with edges up to MaxEdge half-milliseconds   *)

MaxWindowSamples == 3
MaxEdge == 4

WindowRates == {1000, 2000}

\* The crossing lies inside the stored window: samples_before < window_samples
WindowFiles ==
    UNION {{MakeFile(<<3, 5>>, 1000, wfs, sb, ws, <<>>) :
                wfs \in WindowRates, sb \in 0..(ws - 1)} :
           ws \in 1..MaxWindowSamples}

\* spike_window absent, or (lower, upper) in steps of half a millisecond
RequestedWindows ==
    {<<>>} \cup {<<500 * lo, 500 * hi>> : lo \in -MaxEdge..MaxEdge, hi \in -MaxEdge..MaxEdge}

InitWindow ==
    /\ pc = "window"
    /\ \E f \in WindowFiles : Opened(1, f, f.extracted_channels, <<>>, DefaultArgs)

NextWindow == WindowStep(RequestedWindows)

SpecWindow == InitWindow /\ [][NextWindow]_all_vars

\* The requested window in samples of the stored window: the 1-based lower
\* bound and the inclusive upper bound
RequestedLower == SpikeWindowSamples(pre.in.spike_window, file.waveform_fs)[1]
                      + file.samples_before + 1
RequestedUpper == SpikeWindowSamples(pre.in.spike_window, file.waveform_fs)[2]
                      + file.samples_before

WindowRequested == pre.step = "window" /\ pre.in.spike_window # <<>>

\* C3 as stated: a requested window inside [1, window_samples] is accepted and
\* 1 <= lower_bound <= align_sample <= upper_bound <= window_samples
C3_Original ==
    (WindowRequested /\ 1 <= RequestedLower /\ RequestedUpper <= file.window_samples)
    => /\ err = NoError
       /\ 1 <= window.window_lb
       /\ window.window_lb <= window.align_sample
       /\ window.align_sample <= window.window_ub
       /\ window.window_ub <= file.window_samples

\* C3 amended: a requested window inside [1, window_samples] is accepted with
\* 1 <= lower_bound and upper_bound <= window_samples, lower_bound <= upper_bound
\* when the lower edge converts to fewer samples than the upper edge, and
\* align_sample is the position of the crossing counted from lower_bound:
\* align_sample = samples_before - lower_bound + 2
C3_WindowValid ==
    (WindowRequested /\ 1 <= RequestedLower /\ RequestedUpper <= file.window_samples)
    => /\ err = NoError
       /\ pc = "read"
       /\ 1 <= window.window_lb
       /\ window.window_ub <= file.window_samples
       /\ (RequestedLower <= RequestedUpper => window.window_lb <= window.window_ub)
       /\ window.window_lb = RequestedLower
       /\ window.window_ub = RequestedUpper
       /\ window.align_sample = file.samples_before - window.window_lb + 2

\* An accepted window that starts after the crossing: align_sample < 1 <= lower_bound
C3_Witness ==
    /\ WindowRequested
    /\ err = NoError
    /\ window.window_lb <= window.window_ub
    /\ window.align_sample < 1

\* C4: a requested window is refused exactly when its 1-based lower bound is
\* < 1 (the lower bound message) or, the lower bound being valid, its inclusive
\* upper bound is > window_samples (the upper bound message)
C4_WindowErrors ==
    WindowRequested
    => /\ (err = LowerBoundError) <=> (RequestedLower < 1)
       /\ (err = UpperBoundError) <=>
              (RequestedLower >= 1 /\ RequestedUpper > file.window_samples)
       /\ (err = NoError) <=>
              (RequestedLower >= 1 /\ RequestedUpper <= file.window_samples)
       /\ (err # NoError) <=> (pc = "failed")

\* A window refused for its upper bound alone, one sample too long
C4_Witness ==
    /\ WindowRequested
    /\ err = UpperBoundError
    /\ RequestedUpper = file.window_samples + 1

----------------------------------------------------------------------------
(* A call that reaches a step with no filter configured before it: the     *)
(* stored window, every event of the file in the batch                     *)

Unfiltered(at, v, f, wc, a, last) ==
    LET win     == SpikeWindow(<<>>, f).window
        indices == get_indices(wc, f.extracted_channels).indices
        w       == ReadWaveforms(f, win, indices, a.waveform_gain)
        si      == [k \in 1..Len(f.timestamps) |-> k]
    IN  /\ pc = at
        /\ variant = v
        /\ file = f
        /\ args = [a EXCEPT !.waveform_channels = wc]
        /\ err = NoError
        /\ waveforms = w
        /\ timestamps = f.timestamps
        /\ channels = f.channels
        /\ channel_indices = f.channel_indices
        /\ source_indices = si
        /\ waveform_channels = wc
        /\ detect_channels = f.extracted_channels
        /\ detect_mask = IF v = 1
                         THEN [class |-> "double",
                               value |-> [k \in 1..Len(f.timestamps) |-> 1]]
                         ELSE Undefined
        /\ extract_indices = indices
        /\ window = win
        /\ info = NoInfo
        /\ pre = [step |-> last.step, waveforms |-> w,
                  timestamps |-> f.timestamps, channels |-> f.channels,
                  channel_indices |-> f.channel_indices, source_indices |-> si,
                  in |-> last.in]
        /\ spikes = NoSpikes
        /\ DriverIdle

----------------------------------------------------------------------------
(* The refractory deduplication on its own (variant 1): files of up to     *)
(* RefractoryMaxEvents events at 250 Hz, where 1 msec rounds to 0 samples, *)
(* 2 and 5 msec to 1 and 6 msec to 2, and three files at 1000 Hz           *)

RefractoryMaxEvents == 2

RefractoryWaveforms == {Impulse(2, 2, 1, 1, 1), Impulse(2, 2, 2, 2, 1), Flat(2, 2)}

RefractoryEvents ==
    [timestamp : {0, 1, 2}, channel : Range(ExtractedChannels),
     waveform : RefractoryWaveforms]

Event(t, ch, w) == [timestamp |-> t, channel |-> ch, waveform |-> w]

\* The events of section 8 of the specification, a chain of close events out
\* of order, and three events at one time
RefractoryScenarios ==
    {MakeFile(ExtractedChannels, 1000, 1000, 1, 2,
              <<Event(10, 3, Impulse(2, 2, 1, 1, 1)), Event(12, 5, Impulse(2, 2, 2, 2, 1)),
                Event(50, 3, Flat(2, 2)), Event(51, 3, Impulse(2, 2, 1, 1, 1)),
                Event(90, 5, Impulse(2, 2, 1, 1, 1))>>),
     MakeFile(ExtractedChannels, 1000, 1000, 1, 2,
              <<Event(12, 3, Impulse(2, 2, 1, 1, 1)), Event(0, 5, Impulse(2, 2, 2, 2, 1)),
                Event(6, 3, Flat(2, 2))>>),
     MakeFile(ExtractedChannels, 1000, 1000, 1, 2,
              <<Event(7, 5, Impulse(2, 2, 1, 1, 1)), Event(7, 3, Impulse(2, 2, 2, 2, 1)),
                Event(7, 5, Flat(2, 2))>>)}

RefractoryFiles ==
    {MakeFile(ExtractedChannels, 250, 1000, 1, 2, events) :
        events \in SeqUpTo(RefractoryEvents, RefractoryMaxEvents)}
    \cup RefractoryScenarios

RefractoryChannels == {<<3, 5>>, <<5>>, <<5, 3>>}
RefractoryGains == {1, -1}
RefractoryPeriods == {0, 1, 2, 5, 6}

InitRefractory ==
    \E f \in RefractoryFiles, wc \in RefractoryChannels, g \in RefractoryGains :
        Unfiltered("refractory", 1, f, wc,
                   [DefaultArgs EXCEPT !.waveform_gain = g],
                   [step |-> "max", in |-> [max_features |-> Inf]])

NextRefractory == RefractoryStep(RefractoryPeriods)

SpecRefractory == InitRefractory /\ [][NextRefractory]_all_vars

\* The deduplication has run; its period in samples
Deduplicated == pre.step = "refractory"
PeriodSamples == round(pre.in.refractory_period * file.timestamps_fs, 1000)

\* C5: with a period of 0 samples the step changes nothing: the five arrays
\* are those it received and it records no violation
C5_RefractoryNoOp ==
    (Deduplicated /\ PeriodSamples = 0)
    => /\ waveforms = pre.waveforms
       /\ timestamps = pre.timestamps
       /\ channels = pre.channels
       /\ channel_indices = pre.channel_indices
       /\ source_indices = pre.source_indices
       /\ info = NoInfo

\* The largest value of waveform w at channel position c is m
IsDeflection(w, c, m) ==
    /\ \E s \in DOMAIN w : w[s][c] = m
    /\ \A s \in DOMAIN w : w[s][c] <= m

\* Channel position c of waveform w has the largest deflection, and is the
\* first such position
LargestDeflection(w, c) ==
    \E m \in {w[s][c] : s \in DOMAIN w} :
        /\ IsDeflection(w, c, m)
        /\ \A d \in DOMAIN w[1] : \A s \in DOMAIN w : w[s][d] <= m
FirstLargestDeflection(w, c) ==
    /\ LargestDeflection(w, c)
    /\ \A d \in 1..(c - 1) : ~LargestDeflection(w, d)

\* A period of 1 msec at 250 Hz is 0 samples: two events at one time both
\* stay, and the first keeps a detection channel that is not the channel of
\* its largest deflection
C5_Witness ==
    /\ Deduplicated
    /\ pre.in.refractory_period = 1
    /\ PeriodSamples = 0
    /\ Len(timestamps) = 2
    /\ timestamps[1] = timestamps[2]
    /\ \E c \in DOMAIN waveform_channels :
          /\ FirstLargestDeflection(waveforms[1], c)
          /\ waveform_channels[c] # channels[1]

\* Position j of the received batch comes before position k in ascending
\* order of timestamp, events at one time in the order of the batch
Before(j, k) ==
    \/ pre.timestamps[j] < pre.timestamps[k]
    \/ pre.timestamps[j] = pre.timestamps[k] /\ j < k

Predecessor(j, k) ==
    /\ Before(j, k)
    /\ ~\E m \in DOMAIN pre.timestamps : Before(j, m) /\ Before(m, k)

\* The positions of the received batch whose event follows its predecessor
\* within the period
CloseToPredecessor ==
    {k \in DOMAIN pre.timestamps :
        \E j \in DOMAIN pre.timestamps :
            /\ Predecessor(j, k)
            /\ pre.timestamps[k] - pre.timestamps[j] <= PeriodSamples}

\* C6: with a period of p # 0 samples, exactly the events that follow their
\* predecessor in ascending order of timestamp by <= p are removed, each at
\* its own position of every array; timestamps 10, 12, 50, 51, 90 and p = 5
\* leave source_indices 1, 3, 5
C6_RefractoryRemoval ==
    (Deduplicated /\ PeriodSamples # 0)
    => LET kept == Ascending(DOMAIN pre.timestamps \ CloseToPredecessor)
       IN  /\ source_indices = Index(pre.source_indices, kept)
           /\ timestamps = Index(pre.timestamps, kept)
           /\ channel_indices = Index(pre.channel_indices, kept)
           /\ waveforms = Index(pre.waveforms, kept)
           /\ Len(channels) = Len(kept)
           /\ (pre.timestamps = <<10, 12, 50, 51, 90>> /\ PeriodSamples = 5)
                 => source_indices = <<1, 3, 5>>

C6_Witness ==
    /\ Deduplicated
    /\ pre.timestamps = <<10, 12, 50, 51, 90>>
    /\ PeriodSamples = 5
    /\ source_indices = <<1, 3, 5>>
    /\ timestamps = <<10, 50, 90>>

----------------------------------------------------------------------------
(* The trial-range filter on its own, at 250 Hz: 2 msec round to 1 sample, *)
(* 4 msec are 1 sample, 8 msec are 2.  Variant 1 has the per-trial         *)
(* (individual) loop, variant 2 reaches the block.  A trial log is in      *)
(* order of time: every trial ends before the next one starts.             *)

TrialMaxEvents == 2
TrialMaxTrials == 2

TrialTimes == {0, 2, 4, 8}

\* At 1000 Hz: events at the two ends of [0, 3000), out of order
TrialScenarioFile ==
    MakeFile(ExtractedChannels, 1000, 1000, 1, 2,
             <<Event(3000, 3, Flat(2, 2)), Event(0, 3, Flat(2, 2)),
               Event(2999, 3, Flat(2, 2))>>)

\* One trial from 1 s to 2 s and a range of (-1, 1) s
TrialScenarioLog == <<[start |-> 1000, end |-> 2000]>>
TrialScenarioRange == <<-1000, 1000>>

TrialFiles ==
    {MakeFile(ExtractedChannels, 250, 1000, 1, 2,
              [k \in 1..Len(ts) |-> Event(ts[k], 3, Flat(2, 2))]) :
        ts \in SeqUpTo(0..3, TrialMaxEvents)}
    \cup {TrialScenarioFile}

Chronological(log) ==
    /\ \A i \in DOMAIN log : log[i].start <= log[i].end
    /\ \A i \in 1..(Len(log) - 1) : log[i].end <= log[i + 1].start

TrialLogs ==
    {log \in SeqUpTo([start : TrialTimes, end : TrialTimes], TrialMaxTrials) :
        Chronological(log)}
    \cup {TrialScenarioLog}

TrialRanges ==
    {<<>>, TrialScenarioRange}
    \cup {<<lo, hi>> : lo \in {-4, 0, 2}, hi \in {-4, 0, 4}}

InitTrial ==
    \E f \in TrialFiles :
        \/ Unfiltered("trial", 1, f, f.extracted_channels, DefaultArgs,
                      [step |-> "censor",
                       in |-> [exclude_censored |-> FALSE, censored |-> <<>>]])
        \/ \E m \in {"block", "trial"} :
             Unfiltered("trial", 2, f, f.extracted_channels,
                        [DefaultArgs EXCEPT !.trial_range_mode = m],
                        [step |-> "artifact",
                         in |-> [artifact_reject |-> [kind |-> "empty", value |-> <<>>],
                                 artifacts |-> <<>>]])

NextTrial == TrialStep(TrialRanges, TrialLogs, {TRUE})

SpecTrial == InitTrial /\ [][NextTrial]_all_vars

\* The trial-range filter has run with a range; what it read, in samples
TrialFiltered == pre.step = "trial" /\ pre.in.trial_range # <<>>
TrialEpochs == Epochs(pre.in.trial_log, file.timestamps_fs)
TrialLower == round(pre.in.trial_range[1] * file.timestamps_fs, 1000)
TrialUpper == round(pre.in.trial_range[2] * file.timestamps_fs, 1000)

\* The events an individual-mode run and a block-mode run over the received
\* batch leave
IndividualRun ==
    TrialMaskIndividual(pre.timestamps,
                        ExpandedEpochs(TrialEpochs, TrialLower, TrialUpper))
BlockRun == TrialMaskBlock(pre.timestamps, TrialEpochs, TrialLower, TrialUpper)

\* C8: over one batch, one trial_range and one trial log, every event that
\* the individual mode keeps the block mode keeps; the batch after the filter
\* is the one of the mode that ran
C8_BlockSuperset ==
    TrialFiltered
    => LET individual == IndividualRun
           block      == BlockRun
       IN  /\ (individual.err = NoError /\ block.err = NoError)
                => \A k \in DOMAIN pre.timestamps :
                      individual.mask[k] => block.mask[k]
           /\ (variant = 1 /\ err = NoError)
                => source_indices = LogicalIndex(pre.source_indices, individual.mask)
           /\ (variant = 2 /\ err = NoError)
                => source_indices = LogicalIndex(pre.source_indices, block.mask)

\* Two trials: the block mode ran and kept an event between the trials that
\* the individual mode drops, and one that it keeps
C8_Witness ==
    /\ TrialFiltered
    /\ variant = 2
    /\ err = NoError
    /\ Len(pre.in.trial_log) = 2
    /\ Len(source_indices) = 2
    /\ IndividualRun.err = NoError
    /\ IndividualRun.mask[1]
    /\ ~IndividualRun.mask[2]

\* An event at t lies in [start + lower, end + upper) of the epoch
InExpanded(t, epoch, lower, upper) ==
    /\ epoch.start + lower <= t
    /\ t < epoch.end + upper

\* The events of the received batch that lie in the expanded epoch of some
\* trial, by their source index
InSomeEpoch ==
    LET epochs == TrialEpochs
        lower  == TrialLower
        upper  == TrialUpper
    IN  {pre.source_indices[k] : k \in
            {j \in DOMAIN pre.timestamps :
                \E i \in DOMAIN epochs :
                    InExpanded(pre.timestamps[j], epochs[i], lower, upper)}}

\* C9: with one trial in the log the individual mode completes and keeps the
\* events of the block mode: those in [start + lower, end + upper)
C9_SingleTrial ==
    (TrialFiltered /\ variant = 1 /\ Len(pre.in.trial_log) = 1)
    => /\ err = NoError
       /\ pc = "max"
       /\ Range(source_indices) = InSomeEpoch
       /\ source_indices = LogicalIndex(pre.source_indices, BlockRun.mask)

\* C10: in individual mode, for any trial log, an event is kept if and only if
\* some epoch has start + lower <= timestamp < end + upper
C10_Individual ==
    (TrialFiltered /\ variant = 1)
    => /\ err = NoError
       /\ pc = "max"
       /\ Range(source_indices) = InSomeEpoch

\* C10 holds of every log but those of one trial, where the loop of lines
\* 335-339 reads a second column
C10_ExceptSingleTrial ==
    (TrialFiltered /\ variant = 1)
    => IF Len(pre.in.trial_log) = 1
       THEN err = IndexError /\ pc = "failed"
       ELSE /\ err = NoError
            /\ pc = "max"
            /\ Range(source_indices) = InSomeEpoch

\* C11: in block mode (variant 2, any accepted trial_range_mode) with a log
\* of at least one trial, the call completes and an event of the received
\* batch is kept if and only if first.start + lower <= timestamp <
\* last.end + upper, first and last being the first and last rows of the log;
\* the kept events stay in the order of the batch
C11_BlockMode ==
    (TrialFiltered /\ variant = 2 /\ Len(pre.in.trial_log) >= 1)
    => LET epochs == TrialEpochs
           lower  == TrialLower
           upper  == TrialUpper
           kept   == {k \in DOMAIN pre.timestamps :
                        /\ epochs[1].start + lower <= pre.timestamps[k]
                        /\ pre.timestamps[k] < epochs[Len(epochs)].end + upper}
       IN  /\ err = NoError
           /\ pc = "max"
           /\ source_indices = Index(pre.source_indices, Ascending(kept))
           /\ timestamps = Index(pre.timestamps, Ascending(kept))

\* Range (-1, 1) s at 1000 Hz and one epoch [1000, 2000]: of the events at
\* 3000, 0 and 2999 exactly those in [0, 3000) are kept
C11_Witness ==
    /\ TrialFiltered
    /\ variant = 2
    /\ file = TrialScenarioFile
    /\ pre.in.trial_log = TrialScenarioLog
    /\ pre.in.trial_range = TrialScenarioRange
    /\ TrialEpochs = <<[start |-> 1000, end |-> 2000]>>
    /\ timestamps = <<0, 2999>>
    /\ source_indices = <<2, 3>>

----------------------------------------------------------------------------
(* max_features on its own, both variants: files of up to MaxCountEvents   *)
(* events whose timestamps are in any order, and every limit from 0 to one *)
(* more than the number of events                                          *)

MaxCountEvents == 3

MaxCountFiles ==
    {MakeFile(ExtractedChannels, 1000, 1000, 1, 2,
              [k \in 1..Len(ts) |-> Event(ts[k], 5, Impulse(2, 2, 1, 1, ts[k]))]) :
        ts \in SeqUpTo(0..2, MaxCountEvents)}

MaxCountLimits == {Inf} \cup 0..(MaxCountEvents + 1)

InitMaxCount ==
    \E f \in MaxCountFiles, v \in {1, 2} :
        Unfiltered("max", v, f, f.extracted_channels, DefaultArgs,
                   [step |-> "trial", in |-> [trial_range |-> <<>>, trial_log |-> <<>>]])

NextMaxCount == MaxStep(MaxCountLimits)

SpecMaxCount == InitMaxCount /\ [][NextMaxCount]_all_vars

\* The number of events a limit keeps of a batch of n
Truncated(limit, n) == IF limit = Inf \/ limit >= n THEN n ELSE limit

\* C12: max_features = N keeps the first min(N, length) events of the batch
\* it receives, each at its position and whatever the order of their
\* timestamps; the batch is unchanged when N is inf or N >= length
C12_MaxCount ==
    pre.step = "max"
    => LET n == Truncated(pre.in.max_features, Len(pre.timestamps))
       IN  /\ err = NoError
           /\ Len(timestamps) = n
           /\ Len(waveforms) = n
           /\ Len(channels) = n
           /\ Len(channel_indices) = n
           /\ Len(source_indices) = n
           /\ \A k \in 1..n :
                 /\ timestamps[k] = pre.timestamps[k]
                 /\ waveforms[k] = pre.waveforms[k]
                 /\ channels[k] = pre.channels[k]
                 /\ channel_indices[k] = pre.channel_indices[k]
                 /\ source_indices[k] = pre.source_indices[k]
           /\ (pre.in.max_features = Inf \/ pre.in.max_features >= Len(pre.timestamps))
                 => /\ timestamps = pre.timestamps
                    /\ waveforms = pre.waveforms
                    /\ source_indices = pre.source_indices

\* A limit of 2 on three events stored latest first keeps the first two as
\* stored
C12_Witness ==
    /\ pre.step = "max"
    /\ pre.in.max_features = 2
    /\ pre.timestamps = <<2, 0, 1>>
    /\ timestamps = <<2, 0>>
    /\ source_indices = <<1, 2>>

----------------------------------------------------------------------------
(* The filters of the whole call (Spec)                                    *)

\* The detection-channel filter has run; the set it was given
Detected == pre.step = "detect"
DetectSet == Range(pre.in.detect_channels)

\* The positions of the received batch whose recorded channel is in the set
DetectedOn == {k \in DOMAIN pre.channels : pre.channels[k] \in DetectSet}

\* C13: with a non-empty detect set the filter completes, whatever the
\* number of events, and keeps exactly the events whose recorded channel is
\* in the set; with an empty set it keeps every event and reports
\* extracted_channels as detect_channels
C13_DetectFilter ==
    Detected
    => /\ err = NoError
       /\ IF pre.in.detect_channels # <<>>
          THEN /\ source_indices = Index(pre.source_indices, Ascending(DetectedOn))
               /\ timestamps = Index(pre.timestamps, Ascending(DetectedOn))
               /\ channels = Index(pre.channels, Ascending(DetectedOn))
          ELSE /\ source_indices = pre.source_indices
               /\ timestamps = pre.timestamps
               /\ channels = pre.channels
               /\ detect_channels = file.extracted_channels

\* C13 holds whenever the mask of line 281 has one element per event, that
\* is when the events are at least as many as the samples of the window and
\* the channels read; a single event on a detect channel fails otherwise
C13_ExceptShortStores ==
    Detected
    => IF /\ pre.in.detect_channels # <<>>
          /\ length(pre.waveforms) # Len(pre.channels)
          /\ DetectedOn # {}
       THEN err \in {IndexError, DimensionError} /\ pc = "failed"
       ELSE /\ err = NoError
            /\ IF pre.in.detect_channels # <<>>
               THEN source_indices = Index(pre.source_indices, Ascending(DetectedOn))
               ELSE /\ source_indices = pre.source_indices
                    /\ detect_channels = file.extracted_channels

\* The censor filter has run with exclude_censored set
Censored == pre.step = "censor" /\ pre.in.exclude_censored

\* The positions of the received batch whose own flag in the file is false
Uncensored ==
    {k \in DOMAIN pre.source_indices : ~pre.in.censored[pre.source_indices[k]]}

\* C14: with exclude_censored set, with or without a detection-channel set,
\* the filter drops exactly the events of the batch it receives whose own
\* censored flag in the file is true
C14_CensorFilter ==
    Censored
    => /\ err = NoError
       /\ source_indices = Index(pre.source_indices, Ascending(Uncensored))
       /\ timestamps = Index(pre.timestamps, Ascending(Uncensored))

\* C14 holds when a detection-channel set was given: detect_mask is then a
\* logical mask.  Without one every event takes the flag of the first event
\* of the file.
C14_ExceptNoDetectSet ==
    Censored
    => /\ err = NoError
       /\ IF detect_mask.class = "logical"
          THEN source_indices = Index(pre.source_indices, Ascending(Uncensored))
          ELSE source_indices =
                   IF pre.source_indices # <<>> /\ pre.in.censored[1]
                   THEN <<>> ELSE pre.source_indices

\* The artifact rejection has run with a mode or a channel set
Rejected == pre.step = "artifact" /\ pre.in.artifact_reject.kind # "empty"

\* The channel set the mode stands for
ResolvedSet ==
    LET artifact_reject == pre.in.artifact_reject
    IN  IF artifact_reject.kind = "all" THEN Range(file.extracted_channels)
        ELSE IF artifact_reject.kind = "detect" THEN Range(detect_channels)
        ELSE IF artifact_reject.kind = "waveform" THEN Range(waveform_channels)
        ELSE Range(artifact_reject.value)

\* The positions of the received batch whose row of the artifact matrix marks
\* a channel of the resolved set
Marked ==
    {k \in DOMAIN pre.source_indices :
        \E j \in DOMAIN file.extracted_channels :
            /\ file.extracted_channels[j] \in ResolvedSet
            /\ pre.in.artifacts[pre.source_indices[k]][j]}

\* C15: for every mode (all, detect, waveform, a channel set), with or
\* without a detection-channel set, the rejection completes and drops exactly
\* the events that the artifact matrix marks on a channel of the resolved set
C15_ArtifactFilter ==
    Rejected
    => /\ err = NoError
       /\ source_indices =
              Index(pre.source_indices, Ascending(DOMAIN pre.source_indices \ Marked))

\* C15 holds when a detection-channel set was given whose channels are in the
\* file.  Without one the second variant never assigns detect_mask and line
\* 684 fails.
C15_ExceptNoDetectSet ==
    Rejected
    => IF detect_mask.class = "undefined"
       THEN err = UndefinedError /\ pc = "failed"
       ELSE IF ~(ResolvedSet \subseteq Range(file.extracted_channels))
       THEN err = InvalidChannelError /\ pc = "failed"
       ELSE /\ err = NoError
            /\ source_indices =
                   Index(pre.source_indices,
                         Ascending(DOMAIN pre.source_indices \ Marked))

\* The received batch is the batch after the step
BatchUnchanged ==
    /\ waveforms = pre.waveforms
    /\ timestamps = pre.timestamps
    /\ channels = pre.channels
    /\ channel_indices = pre.channel_indices
    /\ source_indices = pre.source_indices

\* The step that has just run had no configuration
StageAbsent ==
    \/ pre.step = "detect" /\ pre.in.detect_channels = <<>>
    \/ pre.step = "censor" /\ ~pre.in.exclude_censored
    \/ pre.step = "artifact" /\ pre.in.artifact_reject.kind = "empty"
    \/ pre.step = "trial" /\ pre.in.trial_range = <<>>
    \/ pre.step = "max" /\ pre.in.max_features = Inf

\* C16: a stage (detection channel, censor, artifact rejection, trial range,
\* max_features) whose configuration is absent or empty does not fail and
\* leaves the batch as it received it; without a trial_range the call goes
\* through whether or not the file holds a trial log
C16_OptionalStages ==
    StageAbsent => (err = NoError /\ pc # "failed" /\ BatchUnchanged)

\* C16 holds of every stage but the trial range of the second variant, which
\* reads the trial log before it looks at trial_range
C16_ExceptTrialLog ==
    StageAbsent
    => IF pre.step = "trial" /\ variant = 2 /\ ~pre.in.stored
       THEN err = ReadError /\ pc = "failed"
       ELSE err = NoError /\ pc # "failed" /\ BatchUnchanged

----------------------------------------------------------------------------
(* Channel resolution: the call up to the read of the waveforms, over      *)
(* files that store up to MaxChannels channels numbered 3 and 5, a number  *)
(* twice included, with one event whose samples tell the columns apart     *)

MaxChannels == 2

\* Sample s of column c holds 10 * c + s
Columns(S, C) == [s \in 1..S |-> [c \in 1..C |-> 10 * c + s]]

ChannelFiles ==
    {MakeFile(ec, 1000, 1000, 1, 2,
              IF ec = <<>> THEN <<>>
              ELSE <<Event(0, ec[1], Columns(2, Len(ec)))>>) :
        ec \in SeqUpTo({3, 5}, MaxChannels)}

\* Channel 7 is in no file
ChannelRequests == {<<>>, <<3>>, <<5>>, <<7>>, <<3, 5>>, <<5, 3>>}
ChannelGains == {2}

InitChannels ==
    /\ pc = "open"
    /\ variant \in {1, 2}
    /\ file \in ChannelFiles
    /\ pre = NoStep
    /\ err = NoError
    /\ waveforms = <<>>
    /\ timestamps = <<>>
    /\ channels = <<>>
    /\ channel_indices = <<>>
    /\ source_indices = <<>>
    /\ waveform_channels = <<>>
    /\ detect_channels = <<>>
    /\ detect_mask = Undefined
    /\ extract_indices = <<>>
    /\ args = DefaultArgs
    /\ window = NoWindow
    /\ info = NoInfo
    /\ spikes = NoSpikes
    /\ DriverIdle

NextChannels ==
    \/ Open(ChannelRequests, ChannelGains, {"block"})
    \/ WindowStep({<<>>})
    \/ ReadStep

SpecChannels == InitChannels /\ [][NextChannels]_all_vars

\* How often a channel number occurs among the extracted channels
Occurrences(ch) ==
    Cardinality({j \in DOMAIN file.extracted_channels :
                    file.extracted_channels[j] = ch})

\* The call has resolved waveform_channels, the request or its default
Resolved == pc # "open"

\* Every channel of the request occurs exactly once in the file
ExactlyOnce == \A i \in DOMAIN waveform_channels : Occurrences(waveform_channels[i]) = 1

\* The column of the file that stores a channel number
ColumnOf(ch) ==
    CHOOSE j \in DOMAIN file.extracted_channels : file.extracted_channels[j] = ch

\* C17: for a request whose channels each occur exactly once among the
\* extracted channels get_indices returns, in the order of the request, one
\* index per channel with extracted_channels[result[i]] = request[i], and the
\* waveform read through result[i] is the stored column of channel request[i]
C17_ChannelRoundTrip ==
    (Resolved /\ ExactlyOnce)
    => /\ err = NoError
       /\ Len(extract_indices) = Len(waveform_channels)
       /\ \A i \in DOMAIN waveform_channels :
             file.extracted_channels[extract_indices[i]] = waveform_channels[i]
       /\ \A e \in DOMAIN waveforms :
          \A sample \in DOMAIN waveforms[e] :
             /\ DOMAIN waveforms[e][sample] = DOMAIN waveform_channels
             /\ \A i \in DOMAIN waveform_channels :
                   waveforms[e][sample][i] =
                       args.waveform_gain *
                       file.waveforms[e][sample][ColumnOf(waveform_channels[i])]

\* Channels 5 and 3 requested of a file that stores 3 and 5: the waveform
\* read holds column 2 first
C17_Witness ==
    /\ pc = "detect"
    /\ file.extracted_channels = <<3, 5>>
    /\ waveform_channels = <<5, 3>>
    /\ extract_indices = <<2, 1>>
    /\ Len(waveforms) = 1
    /\ waveforms[1][1] = <<42, 22>>

\* A channel of the request is not among the extracted channels; one occurs
\* there more than once
SomeAbsent == \E i \in DOMAIN waveform_channels : Occurrences(waveform_channels[i]) = 0
SomeTwice == \E i \in DOMAIN waveform_channels : Occurrences(waveform_channels[i]) > 1

\* The error that get_indices gives for a channel that no file stores
AbsentError == get_indices(<<7>>, file.extracted_channels).err

\* C18 as stated: a request with an absent channel fails with one kind of
\* error and a request with a channel stored twice with another kind
C18_Original ==
    Resolved
    => /\ SomeAbsent => (pc = "failed" /\ err # NoError /\ extract_indices = <<>>)
       /\ (SomeTwice /\ ~SomeAbsent)
             => (pc = "failed" /\ err # NoError /\ err # AbsentError
                 /\ extract_indices = <<>>)

\* C18: get_indices fails when a requested channel is absent from the
\* extracted channels and when it occurs there more than once, in both cases
\* with the one error Neurobehavior:InvalidChannel and without an index list;
\* it fails in no other case
C18_ChannelErrors ==
    Resolved
    => /\ (SomeAbsent \/ SomeTwice)
             => (pc = "failed" /\ err = InvalidChannelError /\ extract_indices = <<>>)
       /\ ExactlyOnce => err = NoError
       /\ AbsentError = InvalidChannelError

\* The file stores channel 3 twice and channel 3 was requested
C18_Witness ==
    /\ pc = "failed"
    /\ err = InvalidChannelError
    /\ file.extracted_channels = <<3, 3>>
    /\ waveform_channels = <<3>>
    /\ SomeTwice
    /\ ~SomeAbsent

----------------------------------------------------------------------------
(* Requested channels that the file does not store (Spec)                  *)

\* The channels of a list that are not among the extracted channels
NotStored(chs) == Range(chs) \ Range(file.extracted_channels)

\* C19: a call that was given, in waveform_channels or detect_channels (as
\* requested or as defaulted from channels), a channel number that is not
\* among the extracted channels fails; it never runs to its output
C19_AbsentChannelFails ==
    pc \in {"output", "done"}
    => /\ NotStored(waveform_channels) = {}
       /\ NotStored(detect_channels) = {}

\* C19 holds of waveform_channels, which get_indices resolves at line 195;
\* detect_channels is only compared with the recorded channels
C19_ExceptDetectChannels ==
    pc \notin {"open", "failed"} => NotStored(waveform_channels) = {}

----------------------------------------------------------------------------
(* The batch driver: main of src/scripts/PROCESS_BATCHFILE.PY, lines 10-67. *)
(* A job is the tuple (fn, file_info, kwargs) that pickle.load returns;    *)
(* kwargs is the set of its keys.  What the file system and the operation  *)
(* called do is chosen at each statement: an openFile succeeds or raises,  *)
(* the operation returns or raises.                                        *)

\* No call of nb_import_spikes is running
ImportIdle ==
    /\ pc = "idle"
    /\ variant = 1
    /\ file = <<>>
    /\ pre = NoStep
    /\ err = NoError
    /\ waveforms = <<>>
    /\ timestamps = <<>>
    /\ channels = <<>>
    /\ channel_indices = <<>>
    /\ source_indices = <<>>
    /\ waveform_channels = <<>>
    /\ detect_channels = <<>>
    /\ detect_mask = Undefined
    /\ extract_indices = <<>>
    /\ args = DefaultArgs
    /\ window = NoWindow
    /\ info = NoInfo
    /\ spikes = NoSpikes

\* The handle that openFile returns for one end of the job loaded last
Handle(end) == [job |-> position, end |-> end]

\* An exception that no except clause of main catches leaves main
Escape(exception) ==
    /\ raised' = exception
    /\ dpc' = "aborted"

OutputBlocksMutant(loaded) == loaded.file_info.output_file \in existing

\* Line 22: path.exists(outfile) and not force_overwrite
OutputBlocks(loaded) ==
    loaded.file_info.output_file \in existing /\ ~force_overwrite

\* Lines 20-25: pickle.load returns the next job or raises EOFError at the
\* end of the file, which the except clause of line 58 turns into break; a
\* job whose output file exists is queued as failed unless force_overwrite
Load ==
    /\ dpc = "load"
    /\ IF position = Len(batchfile)
       THEN /\ dpc' = "save"
            /\ UNCHANGED <<position, job, failed_jobs>>
       ELSE LET loaded == batchfile[position + 1]
            IN  /\ position' = position + 1
                /\ job' = loaded
                /\ IF OutputBlocks(loaded)
                   THEN /\ failed_jobs' = Append(failed_jobs, loaded)
                        /\ dpc' = "load"
                   ELSE /\ dpc' = "open_in"
                        /\ UNCHANGED failed_jobs
    /\ UNCHANGED <<batchfile, force_overwrite, existing, fh_in, fh_out,
                   open_handles, invoked, raised, saved>>
    /\ UNCHANGED vars

\* Lines 29-30: fh_in = tables.openFile(input_file, 'r', ...)
OpenInput ==
    /\ dpc = "open_in"
    /\ \E opened \in BOOLEAN :
         IF opened
         THEN /\ fh_in' = Handle("in")
              /\ open_handles' = open_handles \cup {Handle("in")}
              /\ dpc' = "open_out"
              /\ UNCHANGED raised
         ELSE /\ Escape("IOError")
              /\ UNCHANGED <<fh_in, open_handles>>
    /\ UNCHANGED <<batchfile, force_overwrite, existing, position, job,
                   failed_jobs, fh_out, invoked, saved>>
    /\ UNCHANGED vars

\* Lines 31-32: fh_out = tables.openFile(output_file, 'w', ...), which creates
\* the file
OpenOutput ==
    /\ dpc = "open_out"
    /\ \E opened \in BOOLEAN :
         IF opened
         THEN /\ fh_out' = Handle("out")
              /\ open_handles' = open_handles \cup {Handle("out")}
              /\ existing' = existing \cup {job.file_info.output_file}
              /\ dpc' = "run"
              /\ UNCHANGED raised
         ELSE /\ Escape("IOError")
              /\ UNCHANGED <<fh_out, open_handles, existing>>
    /\ UNCHANGED <<batchfile, force_overwrite, position, job, failed_jobs,
                   fh_in, invoked, saved>>
    /\ UNCHANGED vars

\* Lines 36-41: kwargs gets the three extra arguments and the operation is
\* called.  It returns, or raises: EOFError is caught at line 58 and breaks
\* the loop, any other exception leaves main.
Run(outcomes) ==
    /\ dpc = "run"
    /\ job' = [job EXCEPT !.kwargs = @ \cup {"progress_callback", "input_node",
                                              "output_node"}]
    /\ \E outcome \in outcomes :
         /\ invoked' = Append(invoked, [position |-> position, outcome |-> outcome])
         /\ CASE outcome = "returns"  -> dpc' = "close" /\ UNCHANGED raised
              [] outcome = "EOFError" -> dpc' = "save" /\ UNCHANGED raised
              [] OTHER                -> Escape(outcome)
    /\ UNCHANGED <<batchfile, force_overwrite, existing, position, failed_jobs,
                   fh_in, fh_out, open_handles, saved>>
    /\ UNCHANGED vars

\* Lines 55-56: fh_in.close(), fh_out.close()
Close ==
    /\ dpc = "close"
    /\ open_handles' = open_handles \ {fh_in, fh_out}
    /\ dpc' = "load"
    /\ UNCHANGED <<batchfile, force_overwrite, existing, position, job,
                   failed_jobs, fh_in, fh_out, invoked, raised, saved>>
    /\ UNCHANGED vars

\* Lines 64-67: failed_jobs is pickled to failed_jobs.dat when it is not empty
Save ==
    /\ dpc = "save"
    /\ saved' = IF failed_jobs # <<>> THEN failed_jobs ELSE saved
    /\ dpc' = "exit"
    /\ UNCHANGED <<batchfile, force_overwrite, existing, position, job,
                   failed_jobs, fh_in, fh_out, open_handles, invoked, raised>>
    /\ UNCHANGED vars

MaxJobs == 2

OutputFiles == {"a.hd5", "b.hd5"}

Jobs ==
    [fn : {"decimate", "extract_spikes"},
     file_info : [input_file : {"raw.hd5"}, output_file : OutputFiles],
     kwargs : {{"processing"}}]

BatchFiles == SeqUpTo(Jobs, MaxJobs)

Outcomes == {"returns", "Exception", "EOFError"}

InitBatch ==
    /\ ImportIdle
    /\ dpc = "load"
    /\ batchfile \in BatchFiles
    /\ force_overwrite \in BOOLEAN
    /\ existing \in SUBSET OutputFiles
    /\ position = 0
    /\ job = NoJob
    /\ failed_jobs = <<>>
    /\ fh_in = Unbound
    /\ fh_out = Unbound
    /\ open_handles = {}
    /\ invoked = <<>>
    /\ raised = NoException
    /\ saved = NotWritten

NextBatch ==
    \/ Load
    \/ OpenInput
    \/ OpenOutput
    \/ Run(Outcomes)
    \/ Close
    \/ Save

SpecBatch == InitBatch /\ [][NextBatch]_all_vars

\* The operation of the job at position p was called and raised
ProcessingRaised(p) ==
    \E k \in DOMAIN invoked : invoked[k].position = p /\ invoked[k].outcome # "returns"

\* The job at position p is in failed_jobs.dat with its name, its file_info
\* and the parameters it had in the batch file
Recorded(p) ==
    /\ saved # NotWritten
    /\ \E i \in DOMAIN saved : saved[i] = batchfile[p]

\* C20: when the operation of a job raises, main is not aborted; it goes on
\* to load every later job, and when it exits the job is in the persisted
\* failed-job list with its name, file information and original parameters
C20_FailureIsolated ==
    \A p \in DOMAIN batchfile :
        ProcessingRaised(p)
        => /\ dpc # "aborted"
           /\ raised = NoException
           /\ dpc = "exit" => (position = Len(batchfile) /\ Recorded(p))

\* What main does instead: an exception other than EOFError leaves main at
\* once, an EOFError ends the loop; no later job is loaded and the job is not
\* in failed_jobs
C20_FailureAborts ==
    \A p \in DOMAIN batchfile :
        ProcessingRaised(p)
        => /\ position = p
           /\ dpc \in {"aborted", "save", "exit"}
           /\ \A i \in DOMAIN failed_jobs : failed_jobs[i] # batchfile[p]
           /\ dpc = "aborted" => saved = NotWritten

\* main stands between two jobs or has left the loop
BetweenJobs == dpc \in {"load", "save", "exit", "aborted"}

\* C21: every handle that openFile returned for a job is closed before the
\* next job is loaded and before main is left, whether the job succeeded,
\* its operation raised, or the other handle could not be opened; close is
\* only called on handles that were opened
C21_HandlesReleased ==
    /\ BetweenJobs => open_handles = {}
    /\ dpc = "close" => (fh_in \in open_handles /\ fh_out \in open_handles)

\* What main does: the handles are closed at lines 55-56 only, after the
\* operation returned; on every other path out of a job whose input file
\* was opened they stay open.  close is only called on opened handles.
C21_ReleasedOnSuccessOnly ==
    /\ BetweenJobs
         => open_handles =
               IF /\ fh_in = Handle("in")
                  /\ \/ dpc = "aborted"
                     \/ \E k \in DOMAIN invoked :
                            /\ invoked[k].position = position
                            /\ invoked[k].outcome = "EOFError"
               THEN {fh_in} \cup (IF fh_out = Handle("out") THEN {fh_out} ELSE {})
               ELSE {}
    /\ dpc = "close" => (fh_in \in open_handles /\ fh_out \in open_handles)

\* The job loaded last is being processed: a handle is being opened for it
\* or its operation is about to be called
Processing == dpc \in {"open_in", "open_out", "run"}

\* The job loaded last went back to the top of the loop without an output
\* handle of its own: it was not processed
Skipped == dpc = "load" /\ position >= 1 /\ fh_out # Handle("out")

\* C22: a job whose output file exists when it is loaded, force_overwrite
\* being false, is not processed: no handle is opened for it and its
\* operation is not called; it is appended to failed_jobs as it was in the
\* batch file and main goes on to load the next job.  With force_overwrite
\* no job is skipped and failed_jobs stays empty.
C22_ExistingOutput ==
    /\ (Processing /\ dpc # "run")
          => (force_overwrite \/ job.file_info.output_file \notin existing)
    /\ Skipped
          => /\ ~force_overwrite
             /\ job = batchfile[position]
             /\ job.file_info.output_file \in existing
             /\ failed_jobs # <<>>
             /\ failed_jobs[Len(failed_jobs)] = batchfile[position]
             /\ \A k \in DOMAIN invoked : invoked[k].position # position
             /\ \A h \in open_handles : h.job # position
    /\ force_overwrite => (failed_jobs = <<>> /\ ~Skipped)

\* The first job was skipped for its output file and the second one, whose
\* output file did not exist, was processed
C22_Witness ==
    /\ ~force_overwrite
    /\ position = 2
    /\ dpc = "load"
    /\ failed_jobs = <<batchfile[1]>>
    /\ batchfile[1].file_info.output_file \in existing
    /\ Len(invoked) = 1
    /\ invoked[1].position = 2
    /\ invoked[1].outcome = "returns"

\* With force_overwrite a job whose output file existed from the start is
\* processed
C22_ForceWitness ==
    /\ force_overwrite
    /\ existing = OutputFiles
    /\ position = 1
    /\ dpc = "close"

----------------------------------------------------------------------------
(* trial_range_mode (variant 2, Spec)                                      *)

\* The arguments have been parsed; the mode the caller gave
Parsed == variant = 2 /\ pc # "open"
RequestedMode == args.trial_range_mode

\* C23: the parse accepts the modes 'block' and 'individual'; with
\* 'individual' the trial-range filter keeps the events of some expanded
\* epoch, with 'block' those of the one range from the first trial to the
\* last, and no accepted mode runs the semantics of the other
C23_ModesAccepted ==
    Parsed
    => /\ RequestedMode \in {"block", "individual"} => err # ParseError
       /\ (pre.step = "trial" /\ pre.in.trial_range # <<>> /\ err = NoError)
             => LET epochs == Epochs(pre.in.trial_log, file.timestamps_fs)
                    lower  == round(pre.in.trial_range[1] * file.timestamps_fs, 1000)
                    upper  == round(pre.in.trial_range[2] * file.timestamps_fs, 1000)
                    r == IF RequestedMode = "block"
                         THEN TrialMaskBlock(pre.timestamps, epochs, lower, upper)
                         ELSE TrialMaskIndividual(pre.timestamps,
                                                  ExpandedEpochs(epochs, lower, upper))
                IN  r.err = NoError
                    /\ source_indices = LogicalIndex(pre.source_indices, r.mask)

\* What the parse does: the validator of lines 557-558 knows 'block' and
\* 'trial', so 'individual' ends the call at p.parse and the loop of lines
\* 710-726 never runs
C23_IndividualRejected ==
    Parsed
    => /\ RequestedMode = "individual" => (err = ParseError /\ pc = "failed")
       /\ RequestedMode = "block" => err # ParseError

----------------------------------------------------------------------------
(* The struct returned (Spec)                                              *)

Returned == pc = "done"

\* The sample index that the file stores for event k of the output
StoredTimestamp(k) == file.timestamps[spikes.source_indices[k]]

\* C24 as stated: the timestamps field of the output holds the stored sample
\* index divided by timestamps_fs, in seconds (microseconds here)
C24_Original ==
    Returned
    => \A k \in DOMAIN spikes.timestamps :
          spikes.timestamps[k] * file.timestamps_fs = StoredTimestamp(k) * 1000000

\* C24: the timestamps field of the output holds the stored sample index of
\* every surviving event as it is; the index divided by timestamps_fs, in
\* seconds, is in the fields spiketimes and unwrapped_times
C24_OutputTimes ==
    Returned
    => /\ DOMAIN spikes.timestamps = DOMAIN spikes.source_indices
       /\ DOMAIN spikes.spiketimes = DOMAIN spikes.source_indices
       /\ DOMAIN spikes.unwrapped_times = DOMAIN spikes.source_indices
       /\ \A k \in DOMAIN spikes.source_indices :
             /\ spikes.timestamps[k] = StoredTimestamp(k)
             /\ spikes.spiketimes[k] * file.timestamps_fs = StoredTimestamp(k) * 1000000
             /\ spikes.unwrapped_times[k] = spikes.spiketimes[k]

\* An event at sample 1 of a file sampled at 1000 Hz is returned with
\* timestamp 1 and spike time 1 msec
C24_Witness ==
    /\ Returned
    /\ file.timestamps_fs = 1000
    /\ Len(spikes.timestamps) >= 1
    /\ spikes.timestamps[1] = 1
    /\ spikes.spiketimes[1] = 1000

----------------------------------------------------------------------------
(* The record of the events removed by the deduplication (Spec)            *)

\* C25: after a deduplication with a period # 0, refractory_violations holds
\* the source_indices of the events removed and no other: none of them is the
\* source index of an event left, and with the source_indices left they are,
\* each once, the source_indices the step received
C25_ViolationsRecorded ==
    (Deduplicated /\ PeriodSamples # 0)
    => LET removed  == info.refractory_violations
           received == pre.source_indices
       IN  /\ Range(removed) \cap Range(source_indices) = {}
           /\ Range(removed) \cup Range(source_indices) = Range(received)
           /\ Len(removed) + Len(source_indices) = Len(received)
           /\ Cardinality(Range(removed)) = Len(removed)

\* The first of three events is not detected on channel 5 and the third, at
\* the time of the second, is removed: the violation recorded is source
\* index 3, the second position of the batch received
C25_Witness ==
    /\ Deduplicated
    /\ PeriodSamples # 0
    /\ pre.source_indices = <<2, 3>>
    /\ info.refractory_violations = <<3>>
    /\ source_indices = <<2>>

----------------------------------------------------------------------------
(* The defaults of the channel arguments and the provenance (Spec)         *)

\* The defaults were applied: the parse accepted the arguments
Defaulted == pc # "open" /\ err # ParseError

\* The channels whose waveforms the caller asked for, by lines 146-148 and
\* 187-189, and the channels to detect on, by lines 149-151
WaveformChannelsUsed ==
    IF args.waveform_channels # <<>> THEN args.waveform_channels
    ELSE IF args.channels # <<>> THEN args.channels
    ELSE file.extracted_channels
DetectChannelsUsed ==
    IF args.detect_channels # <<>> THEN args.detect_channels ELSE args.channels

\* C26: an empty waveform_channels stands for channels and, channels being
\* empty too, for extracted_channels; an empty detect_channels stands for
\* channels, and the detect filter that runs keeps the events of these
\* channels; the detect_channels and waveform_channels of the provenance are
\* the lists used (every stored channel where no detect filter ran), while
\* settings keeps the arguments as passed
C26_ChannelDefaults ==
    /\ Defaulted => waveform_channels = WaveformChannelsUsed
    /\ (Defaulted /\ pc \in {"window", "read", "detect"})
          => detect_channels = DetectChannelsUsed
    /\ (pre.step = "detect" /\ err = NoError)
          => /\ pre.in.detect_channels = DetectChannelsUsed
             /\ DetectChannelsUsed # <<>>
                   => source_indices =
                        Index(pre.source_indices,
                              Ascending({k \in DOMAIN pre.channels :
                                  pre.channels[k] \in Range(DetectChannelsUsed)}))
             /\ DetectChannelsUsed = <<>> => source_indices = pre.source_indices
    /\ Returned
          => /\ spikes.waveform_channels = WaveformChannelsUsed
             /\ spikes.detect_channels =
                    IF DetectChannelsUsed # <<>> THEN DetectChannelsUsed
                    ELSE file.extracted_channels
             /\ spikes.settings = args

\* Only channels = 5 is passed: waveforms are read from channel 5, the event
\* detected on channel 3 is dropped, and the provenance names channel 5 for
\* both lists beside the empty arguments
C26_Witness ==
    /\ Returned
    /\ args.channels = <<5>>
    /\ args.waveform_channels = <<>>
    /\ args.detect_channels = <<>>
    /\ spikes.waveform_channels = <<5>>
    /\ spikes.detect_channels = <<5>>
    /\ spikes.settings.detect_channels = <<>>
    /\ file.channels = <<3, 5>>
    /\ spikes.source_indices = <<2>>

----------------------------------------------------------------------------
(* The order of the filters (Spec)                                         *)

Filters == <<"detect", "censor", "artifact", "trial", "max", "refractory">>

\* The place of a filter in the order detect, censor, artifact, trial, max,
\* refractory
FilterRank(stage) == CHOOSE k \in DOMAIN Filters : Filters[k] = stage

\* C27: a filter is only ever followed by a filter later in the order detect,
\* censor, artifact, trial, max, refractory; the truncation is entered from
\* the trial filter, the deduplication from the truncation and from nowhere
\* else, and the output from one of these two.  The truncation to
\* max_features = N leaves at most N events, the deduplication after it
\* removes events and adds none, and the output holds the events then left:
\* at most N, fewer where the deduplication removed one
C27_StageOrder ==
    [][/\ (pc \in Range(Filters) /\ pc' \in Range(Filters))
             => FilterRank(pc) < FilterRank(pc')
       /\ pc' \in {"censor", "artifact"} => pc = "detect"
       /\ pc' = "trial" => pc \in {"censor", "artifact"}
       /\ pc' = "max" => pc = "trial"
       /\ pc' = "refractory" => pc = "max"
       /\ pc' = "output" => pc \in {"max", "refractory"}
       /\ pc = "max"
             => /\ pre'.step = "max"
                /\ Len(timestamps') <= pre'.in.max_features
       /\ pc = "refractory"
             => /\ pre.step = "max"
                /\ Len(timestamps) <= pre.in.max_features
                /\ Range(source_indices') \subseteq Range(source_indices)
                /\ Len(timestamps') <= Len(timestamps)
       /\ pc = "output"
             => /\ pre.step \in {"max", "refractory"}
                /\ spikes'.source_indices = source_indices
                /\ Len(spikes'.timestamps) = Len(timestamps)]_all_vars

\* Of three events the truncation to max_features = 2 left the first two,
\* the deduplication with a period of one sample removed the second, and the
\* output holds one event
C27_Witness ==
    /\ Returned
    /\ variant = 1
    /\ file = PipelineScenario
    /\ detect_mask.class = "double"
    /\ info.refractory_period_ts = 1
    /\ info.refractory_violations = <<2>>
    /\ spikes.source_indices = <<1>>

----------------------------------------------------------------------------
(* What has been read when a configuration error is thrown (Spec)          *)

\* The call failed on a channel that get_indices does not find or on a
\* window outside the stored one
ConfigurationError ==
    /\ pc = "failed"
    /\ err \in {InvalidChannelError, LowerBoundError, UpperBoundError}

\* None of waveforms, channels, channel_indices is read or allocated, and no
\* filter has looked at its flags
NoEventArray ==
    /\ waveforms = <<>>
    /\ channels = <<>>
    /\ channel_indices = <<>>
    /\ detect_mask = Undefined

\* C28 as stated: when the call fails on an absent channel or on the window,
\* no per-event array has been read or allocated, timestamps included
C28_Original ==
    ConfigurationError => (NoEventArray /\ timestamps = <<>> /\ source_indices = <<>>)

\* The errors that the parse and the window stage throw come before
\* waveforms, channels, channel_indices and the flags of the filters are read
\* or allocated, with the timestamps of every event read and source_indices
\* built; an absent channel that the artifact filter resolves is reported
\* with every array in memory
C28_ExceptTimestamps ==
    /\ (ConfigurationError /\ pre.step \in {"open", "window"})
          => /\ NoEventArray
             /\ timestamps = file.timestamps
             /\ source_indices = [k \in 1..Len(file.timestamps) |-> k]
    /\ (ConfigurationError /\ pre.step \notin {"open", "window"})
          => /\ variant = 2
             /\ pre.step = "artifact"
             /\ err = InvalidChannelError

----------------------------------------------------------------------------
(* The events left by the deduplication (SpecRefractory)                   *)

\* Position k of the batch received holds an event later in the store than
\* another event of the same timestamp
LaterDuplicate(k) ==
    \E j \in DOMAIN pre.timestamps :
        /\ pre.timestamps[j] = pre.timestamps[k]
        /\ pre.source_indices[j] < pre.source_indices[k]

\* C29: after a deduplication with a period of p # 0 samples the timestamps
\* of any two events left differ by more than p, so no two of them are
\* equal, and an event that comes later in the store than another event of
\* its timestamp is not left
C29_RefractorySeparation ==
    (Deduplicated /\ PeriodSamples # 0)
    => /\ \A j, k \in DOMAIN timestamps :
             j # k => Abs(timestamps[j] - timestamps[k]) > PeriodSamples
       /\ \A j, k \in DOMAIN timestamps : j # k => timestamps[j] # timestamps[k]
       /\ \A k \in DOMAIN pre.timestamps :
             LaterDuplicate(k) => pre.source_indices[k] \notin Range(source_indices)

\* Of three events at sample 7 the first in the store is the one left
C29_Witness ==
    /\ Deduplicated
    /\ PeriodSamples # 0
    /\ pre.timestamps = <<7, 7, 7>>
    /\ source_indices = <<1>>
    /\ timestamps = <<7>>

----------------------------------------------------------------------------
(* Every job once (SpecBatch)                                              *)

\* main has returned or was left by an exception
Left == dpc \in {"exit", "aborted"}

\* The calls of the operation of the job at position p
InvokedAt(p) == {k \in DOMAIN invoked : invoked[k].position = p}

\* The jobs whose operation was never called, in the order of the batch file
NotInvoked ==
    Index(batchfile, Ascending({p \in DOMAIN batchfile : InvokedAt(p) = {}}))

\* Each job was handled once, in the order of the file: its operation was
\* called once and returned, or it is once in failed_jobs, never both; and
\* failed_jobs.dat holds failed_jobs when there is one, and is not written
\* otherwise
HandledOnce ==
    /\ \A p \in DOMAIN batchfile :
          /\ Cardinality(InvokedAt(p)) <= 1
          /\ \A k \in InvokedAt(p) : invoked[k].outcome = "returns"
    /\ \A j, k \in DOMAIN invoked :
          j < k => invoked[j].position < invoked[k].position
    /\ failed_jobs = NotInvoked
    /\ saved = IF failed_jobs # <<>> THEN failed_jobs ELSE NotWritten

\* C30: main ends for every batch file, having handled each job once in the
\* order of the file, processed or recorded as failed, none twice and none
\* skipped, and failed_jobs.dat is written exactly when a job was recorded
C30_EachJobOnce == Left => (dpc = "exit" /\ HandledOnce)

\* What holds: main ends by returning where every file opened and every
\* operation returned, and then each job was handled once; main never goes
\* back to a job, and never loads past the end of the batch file
C30_ExceptAbort ==
    /\ position \in 0..Len(batchfile)
    /\ \A p \in DOMAIN batchfile : Cardinality(InvokedAt(p)) <= 1
    /\ \A j, k \in DOMAIN invoked :
          j < k => invoked[j].position < invoked[k].position
    /\ (dpc = "exit" /\ \A k \in DOMAIN invoked : invoked[k].outcome = "returns")
          => HandledOnce
    /\ dpc = "aborted" => (raised # NoException /\ saved = NotWritten)

====
